---- MODULE Spec2Model ----
(***************************************************************************)
(* A model of roead's AAMP text codec and name table (src/aamp/text.rs).   *)
(*                                                                         *)
(* Strings are sequences of one-character strings, so that formatting,     *)
(* suffix stripping, template substitution and literal parsing are         *)
(* computed, character by character, the way the code computes them.       *)
(***************************************************************************)
EXTENDS Integers, Sequences, FiniteSets, TLC

VARIABLES names, numbered_names, call, alive, lock, threads, doc

vars == <<names, numbered_names, call, alive, lock, threads, doc>>

(***************************************************************************)
(* Bounds of the model.                                                    *)
(***************************************************************************)
\* Name hashes are HashBits wide in the model (u32 in the program).
HashBits == 6
\* Positional indices passed to get_name range over 0..MaxIndex.
MaxIndex == 1

HashMod == 2 ^ HashBits
Hashes == 0 .. (HashMod - 1)
Indices == 0 .. MaxIndex

\* Option::None for a name, and the outcome of a call that did not return.
\* Both are kept apart from every text, which holds characters of Chars only.
NoName == << "NoName" >>
Crash == << "Crash" >>

(***************************************************************************)
(* Characters and text.                                                    *)
(***************************************************************************)
Alphabet ==
  << "0", "1", "2", "3", "4", "5", "6", "7", "8", "9",
     "a", "b", "c", "d", "e", "f", "g", "h", "i", "j", "k", "l", "m",
     "n", "o", "p", "q", "r", "s", "t", "u", "v", "w", "x", "y", "z",
     "A", "B", "C", "D", "I", "L", "T", "Z", "_", "%", "-", ".", "~" >>

Chars == { Alphabet[i] : i \in DOMAIN Alphabet }

CharCode == [ c \in Chars |-> CHOOSE i \in DOMAIN Alphabet : Alphabet[i] = c ]

DigitChars == << "0", "1", "2", "3", "4", "5", "6", "7", "8", "9" >>

IsDigit(c) == \E i \in DOMAIN DigitChars : DigitChars[i] = c

DigitVal(c) == (CHOOSE i \in DOMAIN DigitChars : DigitChars[i] = c) - 1

\* format!("{}", pos): the decimal text of an unsigned number.
RECURSIVE Dec(_)
Dec(n) == IF n < 10 THEN << DigitChars[n + 1] >>
          ELSE Dec(n \div 10) \o << DigitChars[(n % 10) + 1] >>

\* format!("{:0w}", pos): zero padding up to a minimum width.
RECURSIVE ZeroPad(_, _)
ZeroPad(s, w) == IF Len(s) >= w THEN s ELSE ZeroPad(<< "0" >> \o s, w)

StartsWith(s, p) == Len(s) >= Len(p) /\ SubSeq(s, 1, Len(p)) = p

EndsWith(s, p) == Len(s) >= Len(p) /\ SubSeq(s, Len(s) - Len(p) + 1, Len(s)) = p

\* str::strip_suffix: the text without the suffix, or NoName when absent.
StripSuffix(s, suffix) ==
  IF EndsWith(s, suffix) THEN SubSeq(s, 1, Len(s) - Len(suffix)) ELSE NoName

\* Position of the first occurrence of pat in s at or after i, 0 when there
\* is none.
RECURSIVE FindFrom(_, _, _)
FindFrom(s, pat, i) ==
  IF i + Len(pat) - 1 > Len(s) THEN 0
  ELSE IF SubSeq(s, i, i + Len(pat) - 1) = pat THEN i
  ELSE FindFrom(s, pat, i + 1)

FindFirst(s, pat) == FindFrom(s, pat, 1)

\* str::contains
Contains(s, pat) == FindFirst(s, pat) # 0

\* The first two pieces of s.split(pat): split.next(), split.next().unwrap_or("").
SplitFirstTwo(s, pat) ==
  LET i    == FindFirst(s, pat)
      rest == SubSeq(s, i + Len(pat), Len(s))
      j    == FindFirst(rest, pat)
  IN  << SubSeq(s, 1, i - 1),
         IF j = 0 THEN rest ELSE SubSeq(rest, 1, j - 1) >>

(***************************************************************************)
(* The name hash.  The program uses CRC-32 over the bytes of the name; the *)
(* model keeps a HashBits-wide multiplicative hash of the same bytes, so   *)
(* that distinct names collide within the bounds.                          *)
(***************************************************************************)
RECURSIVE HashFrom(_, _)
HashFrom(h, s) ==
  IF s = << >> THEN h
  ELSE HashFrom((h * 31 + CharCode[Head(s)]) % HashMod, Tail(s))

hash_name(s) == HashFrom(0, s)

(***************************************************************************)
(* Candidate names.                                                        *)
(***************************************************************************)
\* ChildFormatIterator: the six spellings of prefix and position, in order.
ChildFormatIterator(string, pos) ==
  << string \o Dec(pos),
     string \o ZeroPad(Dec(pos), 2),
     string \o ZeroPad(Dec(pos), 3),
     string \o << "_" >> \o Dec(pos),
     string \o << "_" >> \o ZeroPad(Dec(pos), 2),
     string \o << "_" >> \o ZeroPad(Dec(pos), 3) >>

FmtD   == << "%", "d" >>
Fmt02D == << "%", "0", "2", "d" >>
Fmt03D == << "%", "0", "3", "d" >>
Fmt04D == << "%", "0", "4", "d" >>
FmtU   == << "%", "u" >>
Fmt02U == << "%", "0", "2", "u" >>

format_number(format, pos) ==
  IF format \in { FmtD, FmtU } THEN Dec(pos)
  ELSE IF format \in { Fmt02D, Fmt02U } THEN ZeroPad(Dec(pos), 2)
  ELSE IF format = Fmt03D THEN ZeroPad(Dec(pos), 3)
  ELSE ZeroPad(Dec(pos), 4)

NumberFormats == << FmtD, Fmt02D, Fmt03D, Fmt04D, FmtU, Fmt02U >>

\* The first placeholder spelling, in the order the code tries them, that
\* the template contains.
RECURSIVE FirstFormatFrom(_, _)
FirstFormatFrom(name, k) ==
  IF Contains(name, NumberFormats[k]) THEN NumberFormats[k]
  ELSE FirstFormatFrom(name, k + 1)

FirstFormatIn(name) == FirstFormatFrom(name, 1)

format_numbered_name(name, pos) ==
  LET fmt   == FirstFormatIn(name)
      parts == SplitFirstTwo(name, fmt)
  IN  parts[1] \o format_number(fmt, pos) \o parts[2]

(***************************************************************************)
(* The name table.                                                         *)
(***************************************************************************)
\* Stand-ins for data/botw_hashed_names.txt and data/botw_numbered_names.txt.
BotwNames ==
  << << "A", "I" >>,
     << "B", "o", "x", "e", "s" >>,
     << "A", "c", "t", "o", "r", "L", "i", "s", "t" >> >>

BotwNumberedNames ==
  << << "D", "e", "m", "o", "%", "0", "2", "d" >>,
     << "I", "t", "e", "m", "_", "%", "d", "_", "a" >>,
     << "T", "a", "g", "%", "u" >> >>

\* The map of the table: a function from the hashes that have a name.
EmptyNames == << >>

\* HashMap::get: the name stored for a hash, or NoName.
Get(nm, hash) == IF hash \in DOMAIN nm THEN nm[hash] ELSE NoName

\* HashMap::insert and VacantEntry::insert
Insert(nm, hash, name) ==
  [ h \in DOMAIN nm \cup { hash } |-> IF h = hash THEN name ELSE nm[h] ]

\* A table whose adds replace the name already stored.
OrInsertOverwrites(nm, hash, name) == Insert(nm, hash, name)

\* entry(hash).or_insert(name): the first name stored for a hash stays.
OrInsert(nm, hash, name) ==
  IF Get(nm, hash) = NoName THEN Insert(nm, hash, name) ELSE nm

\* Iterator::collect into a map: a later line replaces an earlier one with
\* the same hash.
RECURSIVE Collect(_, _)
Collect(nm, lines) ==
  IF lines = << >> THEN nm
  ELSE Collect(Insert(nm, hash_name(Head(lines)), Head(lines)), Tail(lines))

\* NameTable::new
New(botw_strings) ==
  IF botw_strings
  THEN [ names |-> Collect(EmptyNames, BotwNames), numbered_names |-> BotwNumberedNames ]
  ELSE [ names |-> EmptyNames, numbered_names |-> << >> ]

\* The half-open range lo..hi of a for loop, as a sequence.
Range(lo, hi) == [ k \in 1 .. (hi - lo) |-> lo + k - 1 ]

\* A search that takes the first text whatever its hash.
FirstMatchUnhashed(cands, hash) ==
  IF cands = << >> THEN NoName ELSE cands[1]

\* The first text of cands whose hash is the one looked for, or NoName.
FirstMatch(cands, hash) ==
  LET ks == { k \in DOMAIN cands : hash_name(cands[k]) = hash }
  IN  IF ks = {} THEN NoName ELSE cands[CHOOSE k \in ks : \A j \in ks : k <= j]

RECURSIVE ChildCandidates(_, _)
ChildCandidates(prefix, positions) ==
  IF positions = << >> THEN << >>
  ELSE ChildFormatIterator(prefix, Head(positions))
         \o ChildCandidates(prefix, Tail(positions))

\* test_names: Ok(name) with the first matching spelling, Err as NoName.
test_names(hash, index, prefix) ==
  FirstMatch(ChildCandidates(prefix, Range(index, index + 1)), hash)

SuffixS    == << "s" >>
SuffixEs   == << "e", "s" >>
SuffixList == << "L", "i", "s", "t" >>
Children   == << "C", "h", "i", "l", "d", "r", "e", "n" >>
Child      == << "C", "h", "i", "l", "d" >>

\* The singular forms the suffix loop tries, in its order.
Singulars(parent_name) ==
  LET forms == [ k \in 1 .. 3 |->
                   StripSuffix(parent_name, << SuffixS, SuffixEs, SuffixList >>[k]) ]
  IN  SelectSeq(forms, LAMBDA f : f # NoName)

\* The or_else chain: the first prefix, in order, with a matching spelling.
RECURSIVE TryPrefixes(_, _, _)
TryPrefixes(hash, index, prefixes) ==
  IF prefixes = << >> THEN NoName
  ELSE LET found == test_names(hash, index, Head(prefixes))
       IN  IF found # NoName THEN found
           ELSE TryPrefixes(hash, index, Tail(prefixes))

GuessFromParent(hash, index, parent_name) ==
  TryPrefixes(hash, index,
              << parent_name, Children, Child >> \o Singulars(parent_name))

RECURSIVE NumberedCandidates(_, _)
NumberedCandidates(formats, positions) ==
  IF formats = << >> THEN << >>
  ELSE [ k \in DOMAIN positions |-> format_numbered_name(Head(formats), positions[k]) ]
         \o NumberedCandidates(Tail(formats), positions)

\* Last resort: every template with every position 0 .. index + 1.
GuessNumbered(nn, hash, index) ==
  FirstMatch(NumberedCandidates(nn, Range(0, index + 2)), hash)

(***************************************************************************)
(* get_name keeps parent_name, a reference into the map whose lifetime     *)
(* free_cow! has detached from the borrow, across names.entry(hash).  The  *)
(* entry call on a vacant key reserves room for one more element and may   *)
(* move the map's storage; parent_name then dangles and what is read       *)
(* through it is not determined by the program: the bytes may still spell  *)
(* the parent's name, may spell anything else, or the read may fault.      *)
(* env carries the choice: whether entry moved the storage and, if so,     *)
(* what the dangling read gave.                                            *)
(***************************************************************************)
Junk == { << "Z" >> }

Envs ==
  { [ realloc |-> FALSE, read |-> << >> ] }
    \cup { [ realloc |-> TRUE, read |-> j ] : j \in Junk \cup { Crash } }

Sound == [ realloc |-> FALSE, read |-> << >> ]

\* get_name(hash, index, parent_hash): what is returned, the map afterwards,
\* and whether the occupied branch answered.
get_name(nm, nn, hash, index, parent_hash, env) ==
  LET parent_ref == Get(nm, parent_hash)
  IN  IF Get(nm, hash) # NoName
      THEN [ ret |-> Get(nm, hash), names |-> nm, hit |-> TRUE ]
      ELSE LET parent_name ==
                 IF parent_ref # NoName /\ env.realloc THEN env.read ELSE parent_ref
           IN  IF parent_name = Crash
               THEN [ ret |-> Crash, names |-> nm, hit |-> FALSE ]
               ELSE LET guess == IF parent_name = NoName THEN NoName
                                 ELSE GuessFromParent(hash, index, parent_name)
                        found == IF guess # NoName THEN guess
                                 ELSE GuessNumbered(nn, hash, index)
                    IN  [ ret   |-> found,
                          names |-> IF found = NoName THEN nm
                                    ELSE Insert(nm, hash, found),
                          hit   |-> FALSE ]

(***************************************************************************)
(* The table used on its own: a caller makes up to MaxCalls calls, one     *)
(* after another.  call records the last one: the operation, the hash it   *)
(* was about, what it returned and whether the occupied branch answered.   *)
(***************************************************************************)
MaxCalls == 2

NoThread == 0

TextAI == << "A", "I" >>
TextZ == << "Z" >>
Text123 == << "1", "2", "3" >>
TextQ == << "q" >>

\* Names a caller seeds the table with.
SeedNames == { TextAI, Text123, TextZ }

\* Hashes asked for: those of names the guesses can reach from a parent's
\* name, from "Child", from a singular form, from a template, and of one
\* name no guess reaches.
QueryNames ==
  { << "A", "I", "_", "0", "1" >>,
    << "C", "h", "i", "l", "d", "1" >>,
    << "B", "o", "x", "_", "1" >>,
    << "A", "c", "t", "o", "r", "0", "0", "1" >>,
    << "D", "e", "m", "o", "0", "2" >>,
    TextQ }

QueryHashes == { hash_name(n) : n \in QueryNames }

\* Hashes a caller of add_name_with_hash passes: a right one and a wrong one.
GivenHashes == { hash_name(TextZ), hash_name(TextQ) }

ParentHashes ==
  { hash_name(BotwNames[k]) : k \in DOMAIN BotwNames } \cup { hash_name(TextQ) }

Called(op, name, hash, ret, hit) ==
  [ op |-> op, name |-> name, hash |-> hash, ret |-> ret, hit |-> hit,
    n |-> call.n + 1 ]

NoDoc == [ stage |-> "none" ]

InitTable(t) ==
  /\ names = t.names
  /\ numbered_names = t.numbered_names
  /\ call = [ op |-> "new", name |-> NoName, hash |-> 0, ret |-> NoName,
              hit |-> FALSE, n |-> 0 ]
  /\ alive = TRUE

Init ==
  /\ \E botw_strings \in BOOLEAN : InitTable(New(botw_strings))
  /\ lock = NoThread
  /\ threads = << >>
  /\ doc = NoDoc

\* add_name
AddName(name) ==
  /\ alive /\ call.n < MaxCalls
  /\ names' = OrInsert(names, hash_name(name), name)
  /\ call' = Called("add_name", name, hash_name(name), NoName, FALSE)
  /\ UNCHANGED << numbered_names, alive, lock, threads, doc >>

\* add_name_with_hash
AddNameWithHash(name, hash) ==
  /\ alive /\ call.n < MaxCalls
  /\ names' = OrInsert(names, hash, name)
  /\ call' = Called("add_name_with_hash", name, hash, NoName, FALSE)
  /\ UNCHANGED << numbered_names, alive, lock, threads, doc >>

\* add_name_str
AddNameStr(name) ==
  /\ alive /\ call.n < MaxCalls
  /\ names' = OrInsert(names, hash_name(name), name)
  /\ call' = Called("add_name_str", name, hash_name(name), NoName, FALSE)
  /\ UNCHANGED << numbered_names, alive, lock, threads, doc >>

\* What names.entry(hash) and the read of parent_name may do in this state.
EnvsAt(nm, hash, parent_hash) ==
  IF Get(nm, hash) = NoName /\ Get(nm, parent_hash) # NoName THEN Envs ELSE { Sound }

\* get_name
GetName(hash, index, parent_hash) ==
  /\ alive /\ call.n < MaxCalls
  /\ \E env \in EnvsAt(names, hash, parent_hash) :
       LET r == get_name(names, numbered_names, hash, index, parent_hash, env)
       IN  /\ names' = r.names
           /\ call' = Called("get_name", NoName, hash, r.ret, r.hit)
           /\ alive' = (r.ret # Crash)
  /\ UNCHANGED << numbered_names, lock, threads, doc >>

Next ==
  \/ \E name \in SeedNames : AddName(name)
  \/ \E name \in SeedNames, hash \in GivenHashes : AddNameWithHash(name, hash)
  \/ \E name \in SeedNames : AddNameStr(name)
  \/ \E hash \in QueryHashes, index \in Indices, parent_hash \in ParentHashes :
       GetName(hash, index, parent_hash)

Spec == Init /\ [][Next]_vars

\* The table of a caller that never passes a hash of its own: new, then
\* add_name, add_name_str and get_name only.
NextHashing ==
  \/ \E name \in SeedNames : AddName(name)
  \/ \E name \in SeedNames : AddNameStr(name)
  \/ \E hash \in QueryHashes, index \in Indices, parent_hash \in ParentHashes :
       GetName(hash, index, parent_hash)

SpecHashing == Init /\ [][NextHashing]_vars

(***************************************************************************)
(* The table shared by threads.  Every call takes self.names.write() and   *)
(* holds the guard to its return; get_name hands back a reference into the *)
(* map (free_cow!) that the caller reads after the guard is gone.  A       *)
(* thread's record holds its position, the call it makes, the guess it has *)
(* computed, the name get_name returned (ret), whether the storage ret     *)
(* points into has been moved since (stale), and the name the caller then  *)
(* read through the reference (seen).                                      *)
(***************************************************************************)
NumThreads == 2

Threads == 1 .. NumThreads

TextAI01 == << "A", "I", "_", "0", "1" >>
TextChild1 == << "C", "h", "i", "l", "d", "1" >>

\* The get_name calls the threads choose from: hash, index, parent_hash.
SharedGets ==
  { << hash_name(TextAI01), 1, hash_name(TextAI) >>,
    << hash_name(TextAI01), 0, hash_name(TextQ) >>,
    << hash_name(TextChild1), 1, hash_name(TextAI) >> }

\* The names the threads choose from for add_name.
SharedAdds == { TextAI01, TextZ }

IdleThread ==
  [ pc |-> "idle", op |-> "none", hash |-> 0, index |-> 0, parent |-> 0,
    name |-> NoName, found |-> NoName, ret |-> NoName, stale |-> FALSE,
    seen |-> NoName ]

InitShared ==
  /\ \E botw_strings \in BOOLEAN : InitTable(New(botw_strings))
  /\ lock = NoThread
  /\ threads = [ t \in Threads |-> IdleThread ]
  /\ doc = NoDoc

\* A thread enters get_name.
CallGetName(t, args) ==
  /\ alive /\ threads[t].pc = "idle"
  /\ threads' = [ threads EXCEPT ![t] =
       [ @ EXCEPT !.pc = "lock", !.op = "get_name", !.hash = args[1],
                  !.index = args[2], !.parent = args[3] ] ]
  /\ UNCHANGED << names, numbered_names, call, alive, lock, doc >>

\* A thread enters add_name: the hash is computed before the lock is taken.
CallAddName(t, name) ==
  /\ alive /\ threads[t].pc = "idle"
  /\ threads' = [ threads EXCEPT ![t] =
       [ @ EXCEPT !.pc = "lock", !.op = "add_name", !.name = name,
                  !.hash = hash_name(name) ] ]
  /\ UNCHANGED << names, numbered_names, call, alive, lock, doc >>

\* RwLock::write: granted when no thread holds the lock.
WriteGranted(t) == lock = NoThread

\* self.names.write()
Acquire(t) ==
  /\ alive /\ threads[t].pc = "lock"
  /\ WriteGranted(t)
  /\ lock' = t
  /\ threads' = [ threads EXCEPT ![t].pc = "locked" ]
  /\ UNCHANGED << names, numbered_names, call, alive, doc >>

\* The references other threads were handed and have not read yet dangle
\* once the storage moves.
AfterRealloc(ts, t, realloc) ==
  [ u \in DOMAIN ts |->
      IF realloc /\ u # t /\ ts[u].pc = "returned" /\ ts[u].ret # NoName
      THEN [ ts[u] EXCEPT !.stale = TRUE ] ELSE ts[u] ]

\* get_name up to the point where the name to store is known: the parent's
\* name is fetched, the entry is looked up, the guesses are computed.
Lookup(t) ==
  /\ alive /\ threads[t].pc = "locked" /\ threads[t].op = "get_name"
  /\ \E env \in IF Get(names, threads[t].hash) = NoName THEN Envs ELSE { Sound } :
       LET me == threads[t]
           r  == get_name(names, numbered_names, me.hash, me.index, me.parent, env)
       IN  /\ alive' = (r.ret # Crash)
           /\ threads' =
                [ AfterRealloc(threads, t, env.realloc) EXCEPT ![t] =
                    IF r.hit \/ r.ret \in { NoName, Crash }
                    THEN [ me EXCEPT !.pc = "unlock", !.ret = r.ret ]
                    ELSE [ me EXCEPT !.pc = "insert", !.found = r.ret ] ]
  /\ UNCHANGED << names, numbered_names, call, lock, doc >>

\* entry.insert(name) of the vacant entry get_name holds.
InsertGuess(t) ==
  /\ alive /\ threads[t].pc = "insert"
  /\ names' = Insert(names, threads[t].hash, threads[t].found)
  /\ threads' = [ threads EXCEPT ![t] =
       [ @ EXCEPT !.pc = "unlock", !.ret = threads[t].found ] ]
  /\ UNCHANGED << numbered_names, call, alive, lock, doc >>

\* add_name under the lock: entry(hash).or_insert(name).
InsertName(t) ==
  /\ alive /\ threads[t].pc = "locked" /\ threads[t].op = "add_name"
  /\ \E realloc \in IF Get(names, threads[t].hash) = NoName THEN BOOLEAN ELSE { FALSE } :
       threads' = [ AfterRealloc(threads, t, realloc) EXCEPT ![t].pc = "unlock" ]
  /\ names' = OrInsert(names, threads[t].hash, threads[t].name)
  /\ UNCHANGED << numbered_names, call, alive, lock, doc >>

\* The call returns and the guard is dropped.
Release(t) ==
  /\ alive /\ threads[t].pc = "unlock"
  /\ lock' = IF lock = t THEN NoThread ELSE lock
  /\ threads' = [ threads EXCEPT ![t].pc =
       IF threads[t].op = "get_name" THEN "returned" ELSE "done" ]
  /\ UNCHANGED << names, numbered_names, call, alive, doc >>

\* The caller of get_name reads the name through the reference it was given.
ReadName(t) ==
  /\ alive /\ threads[t].pc = "returned"
  /\ \E read \in IF threads[t].stale
                 THEN Junk \cup { Crash, threads[t].ret } ELSE { threads[t].ret } :
       /\ threads' = [ threads EXCEPT ![t] = [ @ EXCEPT !.pc = "done", !.seen = read ] ]
       /\ alive' = (read # Crash)
  /\ UNCHANGED << names, numbered_names, call, lock, doc >>

NextShared ==
  \/ \E t \in Threads, args \in SharedGets : CallGetName(t, args)
  \/ \E t \in Threads, name \in SharedAdds : CallAddName(t, name)
  \/ \E t \in Threads : Acquire(t)
  \/ \E t \in Threads : Lookup(t)
  \/ \E t \in Threads : InsertGuess(t)
  \/ \E t \in Threads : InsertName(t)
  \/ \E t \in Threads : Release(t)
  \/ \E t \in Threads : ReadName(t)

SpecShared == InitShared /\ [][NextShared]_vars

\* Between write() and the return of the call no other thread is inside.
OneWriter ==
  \A t, u \in Threads :
    (t # u /\ threads[t].pc \in { "locked", "insert", "unlock" })
      => threads[u].pc \notin { "locked", "insert", "unlock" }

\* A name get_name returned is the one the table holds for that hash.
ReturnedIsStored ==
  \A t \in Threads :
    (threads[t].op = "get_name" /\ threads[t].pc \in { "returned", "done" }
       /\ threads[t].ret \notin { NoName, Crash })
      => Get(names, threads[t].hash) = threads[t].ret

\* A caller that was given a name has read that very name.
CallersSeeStored ==
  \A t \in Threads :
    (threads[t].op = "get_name" /\ threads[t].pc = "done"
       /\ threads[t].ret \notin { NoName, Crash })
      => threads[t].seen = Get(names, threads[t].hash)

C5_LockAndMap == OneWriter /\ ReturnedIsStored


(***************************************************************************)
(* Values of the typed tree.                                               *)
(*                                                                         *)
(* A Parameter is a record [t, v].  A 32-bit pattern (U32) is kept as its  *)
(* eight hexadecimal digits, most significant first, each 0..15, so that   *)
(* values of 2^31 and above are what they are in the program.  An f32 is   *)
(* kept as [neg, whole, frac], frac being its decimal digits without       *)
(* trailing zeros.  A ParameterObject is a sequence of <<key, Parameter>>, *)
(* a ParameterList is [objects, lists], each a sequence of <<key, value>>, *)
(* and a ParameterIO is [version, data_type, param_root].                  *)
(***************************************************************************)
HexChars ==
  << "0", "1", "2", "3", "4", "5", "6", "7", "8", "9", "a", "b", "c", "d", "e", "f" >>

IsHexDigit(c) == \E i \in DOMAIN HexChars : HexChars[i] = c

HexVal(c) == (CHOOSE i \in DOMAIN HexChars : HexChars[i] = c) - 1

TextTrue == << "t", "r", "u", "e" >>
TextFalse == << "f", "a", "l", "s", "e" >>
TextNull == << "n", "u", "l", "l" >>
TextTilde == << "~" >>
Text0x == << "0", "x" >>
TextObjects == << "o", "b", "j", "e", "c", "t", "s" >>
TextLists == << "l", "i", "s", "t", "s" >>
TextVersion == << "v", "e", "r", "s", "i", "o", "n" >>
TextType == << "t", "y", "p", "e" >>
TextParamRoot == << "p", "a", "r", "a", "m", "_", "r", "o", "o", "t" >>

\* ROOT_KEY: the name of the root list.
ROOT_KEY == hash_name(TextParamRoot)

AllDigits(s) == s # << >> /\ \A i \in DOMAIN s : IsDigit(s[i])

AllHexDigits(s) == s # << >> /\ \A i \in DOMAIN s : IsHexDigit(s[i])

\* The number a text of decimal digits spells.
RECURSIVE DecValue(_)
DecValue(s) ==
  IF s = << >> THEN 0
  ELSE 10 * DecValue(SubSeq(s, 1, Len(s) - 1)) + DigitVal(s[Len(s)])

\* The number a text of hexadecimal digits spells.
RECURSIVE HexValue(_)
HexValue(s) ==
  IF s = << >> THEN 0
  ELSE 16 * HexValue(SubSeq(s, 1, Len(s) - 1)) + HexVal(s[Len(s)])

\* lexical::to_string of a signed integer.
IntText(i) == IF i < 0 THEN << "-" >> \o Dec(-i) ELSE Dec(i)

\* lexical::to_string of a u32 kept as its hexadecimal digits.
RECURSIVE NibbleValue(_)
NibbleValue(d) ==
  IF d = << >> THEN 0 ELSE 16 * NibbleValue(SubSeq(d, 1, Len(d) - 1)) + d[Len(d)]

U32Text(u) == Dec(NibbleValue(u))

\* lexical::to_string of an f32.
FloatText(f) ==
  (IF f.neg THEN << "-" >> ELSE << >>) \o Dec(f.whole) \o << "." >>
    \o (IF f.frac = << >> THEN << "0" >> ELSE f.frac)

\* format_hex!: "0x" and the eight hexadecimal digits of the value.
FormatHex(u) == Text0x \o [ i \in DOMAIN u |-> HexChars[u[i] + 1] ]

\* The eight hexadecimal digits of a small number.
RECURSIVE NibblesOf(_, _)
NibblesOf(n, width) ==
  IF width = 0 THEN << >> ELSE NibblesOf(n \div 16, width - 1) \o << n % 16 >>

\* The low 32 bits of a run of hexadecimal digits.
Low32(digits) ==
  LET padded == [ i \in 1 .. 8 |-> 0 ] \o digits
  IN  SubSeq(padded, Len(padded) - 7, Len(padded))

\* lexical::parse::<u64, _>: the text is an unsigned decimal literal.
IsU64Text(s) == AllDigits(s)

\* string_needs_quotes: a plain scalar would be read as something else.
string_needs_quotes(s) ==
  \/ s = << >>
  \/ s \in { TextTrue, TextFalse, TextNull, TextTilde }
  \/ AllDigits(s)
  \/ (Len(s) > 1 /\ s[1] = "-" /\ AllDigits(Tail(s)))
  \/ StartsWith(s, Text0x)
  \/ (\E i \in DOMAIN s : s[i] = "."
        /\ AllDigits(SubSeq(s, 1, i - 1)) /\ AllDigits(SubSeq(s, i + 1, Len(s))))

(***************************************************************************)
(* Nodes of the text tree: kind is "map", "seq" or "val"; a node under a   *)
(* map has a key unless none was set (haskey), the key and the value are   *)
(* texts with their quoting flags, tag is the type tag or "".              *)
(***************************************************************************)
Body(kind, tag, val, valq, kids) ==
  [ kind |-> kind, tag |-> tag, val |-> val, valq |-> valq, kids |-> kids ]

Keyed(haskey, key, keyq, body) ==
  [ haskey |-> haskey, key |-> key, keyq |-> keyq, kind |-> body.kind,
    tag |-> body.tag, val |-> body.val, valq |-> body.valq, kids |-> body.kids ]

ScalarBody(tag, val, valq) == Body("val", tag, val, valq, << >>)

\* A flow sequence of plain scalars with a tag.
SeqBody(tag, texts) ==
  Body("seq", tag, << >>, FALSE,
       [ i \in DOMAIN texts |-> Keyed(FALSE, << >>, FALSE, ScalarBody("", texts[i], FALSE)) ])

\* write_curves: a, b and the floats of each curve, one after another.
RECURSIVE CurveTexts(_)
CurveTexts(curves) ==
  IF curves = << >> THEN << >>
  ELSE << U32Text(Head(curves).a), U32Text(Head(curves).b) >>
         \o [ i \in DOMAIN Head(curves).floats |-> FloatText(Head(curves).floats[i]) ]
         \o CurveTexts(Tail(curves))

\* write_parameter
write_parameter(param) ==
  CASE param.t = "Bool" -> ScalarBody("", IF param.v THEN TextTrue ELSE TextFalse, FALSE)
    [] param.t = "F32" -> ScalarBody("", FloatText(param.v), FALSE)
    [] param.t = "Int" -> ScalarBody("", IntText(param.v), FALSE)
    [] param.t = "Vec2" -> SeqBody("!vec2", [ i \in DOMAIN param.v |-> FloatText(param.v[i]) ])
    [] param.t = "Vec3" -> SeqBody("!vec3", [ i \in DOMAIN param.v |-> FloatText(param.v[i]) ])
    [] param.t = "Vec4" -> SeqBody("!vec4", [ i \in DOMAIN param.v |-> FloatText(param.v[i]) ])
    [] param.t = "Color" -> SeqBody("!color", [ i \in DOMAIN param.v |-> FloatText(param.v[i]) ])
    [] param.t = "Quat" -> SeqBody("!quat", [ i \in DOMAIN param.v |-> FloatText(param.v[i]) ])
    [] param.t = "String32" -> ScalarBody("!str32", param.v, FALSE)
    [] param.t = "String64" -> ScalarBody("!str64", param.v, FALSE)
    [] param.t = "String256" -> ScalarBody("!str256", param.v, FALSE)
    [] param.t \in { "Curve1", "Curve2", "Curve3", "Curve4" } ->
         SeqBody("!curve", CurveTexts(param.v))
    [] param.t = "BufferInt" ->
         SeqBody("!buffer_int", [ i \in DOMAIN param.v |-> IntText(param.v[i]) ])
    [] param.t = "BufferF32" ->
         SeqBody("!buffer_f32", [ i \in DOMAIN param.v |-> FloatText(param.v[i]) ])
    [] param.t = "U32" -> ScalarBody("!u", FormatHex(param.v), FALSE)
    [] param.t = "BufferU32" ->
         SeqBody("!buffer_u32", [ i \in DOMAIN param.v |-> FormatHex(param.v[i]) ])
    [] param.t = "BufferBinary" ->
         SeqBody("!buffer_binary", [ i \in DOMAIN param.v |-> FormatHex(param.v[i]) ])
    [] param.t = "StringRef" -> ScalarBody("", param.v, string_needs_quotes(param.v))


(***************************************************************************)
(* Encoding walks the typed tree and asks the table for a name per key, so *)
(* the table is threaded through the walk: every writer gives back the     *)
(* table as its calls of get_name left it, whether one of them did not     *)
(* return (crashed), and the node it has written.                          *)
(***************************************************************************)
Written(nm, crashed, body) == [ names |-> nm, crashed |-> crashed, body |-> body ]

\* The key of a parameter's node: the name if the table gave one, quoted
\* when it reads as a number, else the decimal text of the hash.
ParameterKey(name, key) ==
  IF name # NoName
  THEN [ haskey |-> TRUE, key |-> name, keyq |-> IsU64Text(name) ]
  ELSE [ haskey |-> TRUE, key |-> Dec(key), keyq |-> FALSE ]

\* The key of an object's or a list's node under a list: with a name from
\* the table only the quoting flag is set, the key itself is not; without a
\* name the key is the decimal text of the hash.
ListChildKey(name, key) ==
  IF name # NoName
  THEN [ haskey |-> FALSE, key |-> << >>, keyq |-> IsU64Text(name) ]
  ELSE [ haskey |-> TRUE, key |-> Dec(key), keyq |-> FALSE ]

\* A node with the key of k.
KeyedAs(k, body) == Keyed(k.haskey, k.key, k.keyq, body)

\* What a writer gives back when a get_name call did not return.
Panicked(nm) == Written(nm, TRUE, Body("map", "", << >>, FALSE, << >>))

RECURSIVE WriteParameters(_, _, _, _, _, _, _)
RECURSIVE WriteParameterNamed(_, _, _, _, _, _, _, _)

\* The loop of write_parameter_object.
WriteParameters(nm, nn, pobj, i, parent_hash, env, kids) ==
  IF i > Len(pobj) THEN Written(nm, FALSE, Body("map", "!obj", << >>, FALSE, kids))
  ELSE WriteParameterNamed(nm, nn, pobj, i, parent_hash, env, kids,
         get_name(nm, nn, pobj[i][1], i - 1, parent_hash, env))

\* One pass of the loop after its get_name call r.
WriteParameterNamed(nm, nn, pobj, i, parent_hash, env, kids, r) ==
  IF r.ret = Crash THEN Panicked(nm)
  ELSE WriteParameters(r.names, nn, pobj, i + 1, parent_hash, env,
         Append(kids, KeyedAs(ParameterKey(r.ret, pobj[i][1]), write_parameter(pobj[i][2]))))

\* write_parameter_object
write_parameter_object(nm, nn, pobj, parent_hash, env) ==
  WriteParameters(nm, nn, pobj, 1, parent_hash, env, << >>)

RECURSIVE write_parameter_list(_, _, _, _, _)
RECURSIVE WriteChildren(_, _, _, _, _, _, _, _)
RECURSIVE WriteChildNamed(_, _, _, _, _, _, _, _, _)
RECURSIVE WriteChildWritten(_, _, _, _, _, _, _, _, _, _)

\* The writer of a child of the objects map or of the lists map.
WriteChild(what, nm, nn, value, key, env) ==
  IF what = "object" THEN write_parameter_object(nm, nn, value, key, env)
  ELSE write_parameter_list(nm, nn, value, key, env)

\* The loop over plist.objects and the loop over plist.lists.
WriteChildren(what, nm, nn, entries, i, parent_hash, env, kids) ==
  IF i > Len(entries) THEN Written(nm, FALSE, Body("map", "", << >>, FALSE, kids))
  ELSE WriteChildNamed(what, nm, nn, entries, i, parent_hash, env, kids,
         get_name(nm, nn, entries[i][1], i - 1, parent_hash, env))

\* One pass of the loop after its get_name call r.
WriteChildNamed(what, nm, nn, entries, i, parent_hash, env, kids, r) ==
  IF r.ret = Crash THEN Panicked(nm)
  ELSE WriteChildWritten(what, nm, nn, entries, i, parent_hash, env, kids, r,
         WriteChild(what, r.names, nn, entries[i][2], entries[i][1], env))

\* One pass of the loop after the child w has been written.
WriteChildWritten(what, nm, nn, entries, i, parent_hash, env, kids, r, w) ==
  IF w.crashed THEN Panicked(nm)
  ELSE WriteChildren(what, w.names, nn, entries, i + 1, parent_hash, env,
         Append(kids, KeyedAs(ListChildKey(r.ret, entries[i][1]), w.body)))

\* The list node once its two maps are written.
ListWritten(nm, objects, lists) ==
  IF lists.crashed THEN Panicked(nm)
  ELSE Written(lists.names, FALSE,
         Body("map", "!list", << >>, FALSE,
              << Keyed(TRUE, TextObjects, FALSE, objects.body),
                 Keyed(TRUE, TextLists, FALSE, lists.body) >>))

\* write_parameter_list after the loop over plist.objects.
WriteListsAfter(nm, nn, plist, parent_hash, env, objects) ==
  IF objects.crashed THEN Panicked(nm)
  ELSE ListWritten(nm, objects,
         WriteChildren("list", objects.names, nn, plist.lists, 1, parent_hash, env, << >>))

write_parameter_list(nm, nn, plist, parent_hash, env) ==
  WriteListsAfter(nm, nn, plist, parent_hash, env,
    WriteChildren("object", nm, nn, plist.objects, 1, parent_hash, env, << >>))

\* The root node around the root list.
IoWritten(pio, root) ==
  Written(root.names, root.crashed,
    Body("map", "!io", << >>, FALSE,
         << Keyed(TRUE, TextVersion, FALSE, ScalarBody("", U32Text(pio.version), FALSE)),
            Keyed(TRUE, TextType, FALSE, ScalarBody("", pio.data_type, FALSE)),
            Keyed(TRUE, TextParamRoot, FALSE, root.body) >>))

\* write_parameter_io
write_parameter_io(nm, nn, pio, env) ==
  IoWritten(pio, write_parameter_list(nm, nn, pio.param_root, ROOT_KEY, env))


(***************************************************************************)
(* Decoding.  A result is Ok(v) or Err, the data error that ends the       *)
(* decode.                                                                 *)
(***************************************************************************)
Ok(v) == [ ok |-> TRUE, v |-> v ]
Err == [ ok |-> FALSE ]

\* What get gives when the node has no such child.
InvalidNode == Keyed(FALSE, << >>, FALSE, Body("invalid", "", << >>, FALSE, << >>))

\* NodeRef::get: the first child with the key.
GetChild(node, key) ==
  LET ks == { k \in DOMAIN node.kids : node.kids[k].haskey /\ node.kids[k].key = key }
  IN  IF node.kind # "map" \/ ks = {} THEN InvalidNode
      ELSE node.kids[CHOOSE k \in ks : \A j \in ks : k <= j]

\* str::trim_start_matches("0x"): every leading "0x" is removed.
RECURSIVE TrimStart0x(_)
TrimStart0x(s) ==
  IF StartsWith(s, Text0x) THEN TrimStart0x(SubSeq(s, 3, Len(s))) ELSE s

\* A variant that removes one leading "0x" at most.
StripOne0x(s) == IF StartsWith(s, Text0x) THEN SubSeq(s, 3, Len(s)) ELSE s

\* The text without its leading zeros.
RECURSIVE TrimZeros(_)
TrimZeros(s) == IF s # << >> /\ Head(s) = "0" THEN TrimZeros(Tail(s)) ELSE s

HexDigitsOf(s) == [ i \in DOMAIN s |-> HexVal(s[i]) ]

IsFloatText(s) ==
  LET body == IF s # << >> /\ s[1] = "-" THEN Tail(s) ELSE s
  IN  \/ AllDigits(body)
      \/ \E i \in DOMAIN body :
           /\ body[i] = "."
           /\ AllDigits(SubSeq(body, 1, i - 1))
           /\ AllDigits(SubSeq(body, i + 1, Len(body)))

\* The text without its trailing zeros.
RECURSIVE TrimTrailingZeros(_)
TrimTrailingZeros(s) ==
  IF s # << >> /\ s[Len(s)] = "0" THEN TrimTrailingZeros(SubSeq(s, 1, Len(s) - 1)) ELSE s

FloatOf(s) ==
  LET neg  == s[1] = "-"
      body == IF neg THEN Tail(s) ELSE s
      dot  == FindFirst(body, << "." >>)
  IN  IF dot = 0 THEN [ neg |-> neg, whole |-> DecValue(body), frac |-> << >> ]
      ELSE [ neg   |-> neg,
             whole |-> DecValue(SubSeq(body, 1, dot - 1)),
             frac  |-> TrimTrailingZeros(SubSeq(body, dot + 1, Len(body))) ]

\* T::from_lexical: the decimal literal of a number of type T.
FromDecimal(T, s) ==
  CASE T = "u32" -> IF AllDigits(s) THEN Ok(NibblesOf(DecValue(s), 8)) ELSE Err
    [] T = "u8"  -> IF AllDigits(s) /\ DecValue(s) < 256
                    THEN Ok(NibblesOf(DecValue(s), 2)) ELSE Err
    [] T = "i32" -> IF AllDigits(s) THEN Ok(DecValue(s))
                    ELSE IF Len(s) > 1 /\ s[1] = "-" /\ AllDigits(Tail(s))
                    THEN Ok(-DecValue(Tail(s))) ELSE Err
    [] T = "f32" -> IF IsFloatText(s) THEN Ok(FloatOf(s)) ELSE Err

\* T::from_lexical_with_options in the hexadecimal format.
FromHexadecimal(T, s) ==
  CASE T = "u32" -> IF AllHexDigits(s) /\ Len(TrimZeros(s)) <= 8
                    THEN Ok(Low32(HexDigitsOf(s))) ELSE Err
    [] T = "u8"  -> IF AllHexDigits(s) /\ Len(TrimZeros(s)) <= 2
                    THEN Ok(SubSeq(Low32(HexDigitsOf(s)), 7, 8)) ELSE Err
    [] T = "i32" -> IF AllHexDigits(s) /\ Len(TrimZeros(s)) <= 7
                    THEN Ok(HexValue(s)) ELSE Err
    [] T = "f32" -> IF AllHexDigits(s) /\ Len(TrimZeros(s)) <= 7
                    THEN Ok([ neg |-> FALSE, whole |-> HexValue(s), frac |-> << >> ])
                    ELSE Err

\* The first result if it is Ok, else the second.
FirstOk(first, second) == IF first.ok THEN first ELSE second

\* parse_num: decimal first, then hexadecimal without the leading "0x"s.
parse_num(T, node) ==
  IF node.kind # "val" THEN Err
  ELSE FirstOk(FromDecimal(T, node.val), FromHexadecimal(T, TrimStart0x(node.val)))

\* recognize_tag
recognize_tag(tag) ==
  IF tag \in { "!str32", "!str64", "!str256" } THEN "Str"
  ELSE IF tag = "!u" THEN "Int"
  ELSE "None"

IsIntText(s) ==
  \/ AllDigits(s)
  \/ (Len(s) > 1 /\ s[1] = "-" /\ AllDigits(Tail(s)))
  \/ (StartsWith(s, Text0x) /\ AllHexDigits(SubSeq(s, 3, Len(s))))

\* An integer scalar: its sign and the hexadecimal digits of its magnitude.
IntOf(s) ==
  IF StartsWith(s, Text0x)
  THEN [ neg |-> FALSE, mag |-> HexDigitsOf(SubSeq(s, 3, Len(s))) ]
  ELSE IF s[1] = "-" THEN [ neg |-> TRUE, mag |-> NibblesOf(DecValue(Tail(s)), 8) ]
  ELSE [ neg |-> FALSE, mag |-> NibblesOf(DecValue(s), 8) ]

\* parse_scalar: the scalar kind a value has under its tag and quoting.
parse_scalar(tag_type, val, quoted) ==
  CASE tag_type = "Str" -> Ok([ k |-> "String", v |-> val ])
    [] tag_type = "Int" ->
         IF IsIntText(val) THEN Ok([ k |-> "Int", v |-> IntOf(val) ]) ELSE Err
    [] OTHER ->
         IF quoted THEN Ok([ k |-> "String", v |-> val ])
         ELSE IF val \in { TextNull, TextTilde, << >> } THEN Ok([ k |-> "Null", v |-> val ])
         ELSE IF val = TextTrue THEN Ok([ k |-> "Bool", v |-> TRUE ])
         ELSE IF val = TextFalse THEN Ok([ k |-> "Bool", v |-> FALSE ])
         ELSE IF IsIntText(val) THEN Ok([ k |-> "Int", v |-> IntOf(val) ])
         ELSE IF IsFloatText(val) THEN Ok([ k |-> "Float", v |-> FloatOf(val) ])
         ELSE Ok([ k |-> "String", v |-> val ])

\* d + 1 over the width of d, wrapping.
RECURSIVE PlusOne(_)
PlusOne(d) ==
  IF d = << >> THEN << >>
  ELSE IF d[Len(d)] < 15 THEN SubSeq(d, 1, Len(d) - 1) \o << d[Len(d)] + 1 >>
  ELSE PlusOne(SubSeq(d, 1, Len(d) - 1)) \o << 0 >>

Complement(d) == [ i \in DOMAIN d |-> 15 - d[i] ]

\* i as u32: the low 32 bits, in two's complement for a negative number.
AsU32(i) ==
  IF i.neg THEN PlusOne(Complement(Low32(i.mag))) ELSE Low32(i.mag)

\* i as i32: the low 32 bits read as a signed number.
AsI32(i) ==
  LET bits == AsU32(i)
  IN  IF bits[1] < 8 THEN NibbleValue(bits)
      ELSE (-NibbleValue(Complement(bits))) - 1

\* The Int arm with the casts exchanged.
ScalarIntSigned(tag, i) ==
  IF tag = "!u" THEN [ t |-> "Int", v |-> AsI32(i) ] ELSE [ t |-> "U32", v |-> AsU32(i) ]

\* The Scalar::Int arm of scalar_to_value.
ScalarInt(tag, i) ==
  IF tag = "!u" THEN [ t |-> "U32", v |-> AsU32(i) ] ELSE [ t |-> "Int", v |-> AsI32(i) ]

\* scalar_to_value
scalar_to_value(tag, scalar) ==
  CASE scalar.k = "String" ->
         Ok([ t |-> CASE tag = "!str32" -> "String32"
                      [] tag = "!str64" -> "String64"
                      [] tag = "!str256" -> "String256"
                      [] OTHER -> "StringRef",
              v |-> scalar.v ])
    [] scalar.k = "Int" -> Ok(ScalarInt(tag, scalar.v))
    [] scalar.k = "Float" -> Ok([ t |-> "F32", v |-> scalar.v ])
    [] scalar.k = "Bool" -> Ok([ t |-> "Bool", v |-> scalar.v ])
    [] scalar.k = "Null" -> Err


\* Result::and_then for a list: the head before the rest, or the error.
Cons(head, rest) == IF head.ok /\ rest.ok THEN Ok(<< head.v >> \o rest.v) ELSE Err

\* The numbers of a run of nodes, or the first error.
RECURSIVE ParseNums(_, _)
ParseNums(T, kids) ==
  IF kids = << >> THEN Ok(<< >>)
  ELSE Cons(parse_num(T, Head(kids)), ParseNums(T, Tail(kids)))

\* The Parameter of variant t that holds the values, or the error.
Tagged(t, vals) == IF vals.ok THEN Ok([ t |-> t, v |-> vals.v ]) ELSE Err

\* impl_from_node_for_struct!: the first n children are the fields.
StructFromNode(t, n, node) ==
  IF Len(node.kids) < n THEN Err
  ELSE Tagged(t, ParseNums("f32", SubSeq(node.kids, 1, n)))

\* The floats of a Curve.
CurveFloats == 30

\* The children one curve takes: a, b and the floats.
CurveWidth == CurveFloats + 2

CurveOf(a, b, floats) ==
  IF a.ok /\ b.ok /\ floats.ok
  THEN Ok([ a |-> a.v, b |-> b.v, floats |-> floats.v ])
  ELSE Err

\* One pass of the loop of read_curves.
ReadCurve(kids) ==
  IF Len(kids) < CurveWidth THEN Err
  ELSE CurveOf(parse_num("u32", kids[1]), parse_num("u32", kids[2]),
               ParseNums("f32", SubSeq(kids, 3, CurveWidth)))

RECURSIVE ReadCurvesFrom(_, _)
ReadCurvesFrom(kids, N) ==
  IF N = 0 THEN Ok(<< >>)
  ELSE Cons(ReadCurve(kids), ReadCurvesFrom(SubSeq(kids, CurveWidth + 1, Len(kids)), N - 1))

\* read_curves::<N>
read_curves(node, N) == ReadCurvesFrom(node.kids, N)

CurveTypes == << "Curve1", "Curve2", "Curve3", "Curve4" >>

\* The number of curves of a sequence with three more children per curve.
CurveArityLoose(n) ==
  CASE n = 35 -> 1 [] n = 70 -> 2 [] n = 105 -> 3 [] n = 140 -> 4 [] OTHER -> 0

\* The match on num_children of a !curve sequence: 0 stands for no arm.
CurveArity(n) ==
  CASE n = 32 -> 1 [] n = 64 -> 2 [] n = 96 -> 3 [] n = 128 -> 4 [] OTHER -> 0

\* The !curve arm: the curves of the arity, or the error.
CurvesOf(N, curves) ==
  IF N = 0 \/ ~curves.ok THEN Err ELSE Ok([ t |-> CurveTypes[N], v |-> curves.v ])

\* read_buf
read_buf(t, T, node) == Tagged(t, ParseNums(T, node.kids))

\* get_tag_based_type: the tags of the text form itself; none is modelled.
get_tag_based_type(tag) == "None"

\* The arms of parse_parameter that read a struct: variant and fields.
StructArms ==
  [ tag \in { "!vec2", "!vec3", "!vec4", "!quat", "!color" } |->
      CASE tag = "!vec2" -> [ t |-> "Vec2", n |-> 2 ]
        [] tag = "!vec3" -> [ t |-> "Vec3", n |-> 3 ]
        [] tag = "!vec4" -> [ t |-> "Vec4", n |-> 4 ]
        [] tag = "!quat" -> [ t |-> "Quat", n |-> 4 ]
        [] tag = "!color" -> [ t |-> "Color", n |-> 4 ] ]

\* The arms of parse_parameter that read a buffer: variant and number type.
BufferArms ==
  [ tag \in { "!buffer_int", "!buffer_f32", "!buffer_u32", "!buffer_binary" } |->
      CASE tag = "!buffer_int" -> [ t |-> "BufferInt", T |-> "i32" ]
        [] tag = "!buffer_f32" -> [ t |-> "BufferF32", T |-> "f32" ]
        [] tag = "!buffer_u32" -> [ t |-> "BufferU32", T |-> "u32" ]
        [] tag = "!buffer_binary" -> [ t |-> "BufferBinary", T |-> "u8" ] ]

\* recognize_tag(tag).or_else(|| get_tag_based_type(tag))
TagType(tag) ==
  IF recognize_tag(tag) # "None" THEN recognize_tag(tag) ELSE get_tag_based_type(tag)

\* scalar_to_value of the parsed scalar, or the error of the parse.
ValueOf(tag, scalar) == IF scalar.ok THEN scalar_to_value(tag, scalar.v) ELSE Err

\* parse_parameter
parse_parameter(node) ==
  IF node.kind = "invalid" THEN Err
  ELSE IF node.kind = "seq"
  THEN IF node.tag \in DOMAIN StructArms
       THEN StructFromNode(StructArms[node.tag].t, StructArms[node.tag].n, node)
       ELSE IF node.tag = "!curve"
       THEN CurvesOf(CurveArity(Len(node.kids)),
                     read_curves(node, CurveArity(Len(node.kids))))
       ELSE IF node.tag \in DOMAIN BufferArms
       THEN read_buf(BufferArms[node.tag].t, BufferArms[node.tag].T, node)
       ELSE Err
  ELSE IF node.kind # "val" THEN Err
  ELSE ValueOf(node.tag, parse_scalar(TagType(node.tag), node.val, node.valq))

\* IndexMap::insert: a key already there keeps its place and takes the value.
MapInsert(m, key, value) ==
  IF \E i \in DOMAIN m : m[i][1] = key
  THEN [ i \in DOMAIN m |-> IF m[i][1] = key THEN << key, value >> ELSE m[i] ]
  ELSE Append(m, << key, value >>)

\* The test of read_map! on the quoting of a key: it asks the map node.
is_key_quoted(node, child) == node.keyq

\* The Name of a child's key in read_map!.
KeyName(node, child) ==
  IF ~is_key_quoted(node, child) /\ IsU64Text(child.key)
  THEN DecValue(child.key) % HashMod
  ELSE hash_name(child.key)

RECURSIVE read_parameter_list(_)
RECURSIVE ReadChildren(_, _, _, _)
RECURSIVE ReadNext(_, _, _, _, _)

\* read_parameter_object
read_parameter_object(node) ==
  IF node.kind = "invalid" THEN Err ELSE ReadChildren(node, "parameter", 1, << >>)

\* The $fn of read_map!.
ReadChild(what, child) ==
  CASE what = "parameter" -> parse_parameter(child)
    [] what = "object" -> read_parameter_object(child)
    [] what = "list" -> read_parameter_list(child)

\* read_map!: the children of a map node in document order.
ReadChildren(node, what, i, m) ==
  IF node.kind # "map" THEN Err
  ELSE IF i > Len(node.kids) THEN Ok(m)
  ELSE ReadNext(node, what, i, m,
                IF node.kids[i].haskey THEN ReadChild(what, node.kids[i]) ELSE Err)

\* The end of one pass of the loop of read_map!: the value is inserted.
ReadNext(node, what, i, m, value) ==
  IF ~value.ok THEN Err
  ELSE ReadChildren(node, what, i + 1,
                    MapInsert(m, KeyName(node, node.kids[i]), value.v))

ListOf(objects, lists) ==
  IF objects.ok /\ lists.ok THEN Ok([ objects |-> objects.v, lists |-> lists.v ]) ELSE Err

read_parameter_list(node) ==
  IF node.kind = "invalid" THEN Err
  ELSE ListOf(ReadChildren(GetChild(node, TextObjects), "object", 1, << >>),
              ReadChildren(GetChild(node, TextLists), "list", 1, << >>))

IoOf(version, dt, root) ==
  IF version.ok /\ dt.kind = "val" /\ root.ok
  THEN Ok([ version |-> version.v, data_type |-> dt.val, param_root |-> root.v ])
  ELSE Err

\* read_parameter_io
read_parameter_io(node) ==
  IF node.kind = "invalid" THEN Err
  ELSE IoOf(parse_num("u32", GetChild(node, TextVersion)),
            GetChild(node, TextType),
            read_parameter_list(GetChild(node, TextParamRoot)))


(***************************************************************************)
(* The codec.  doc follows one document: a ParameterIO (stage "value") is  *)
(* written by to_text (stage "text") and read back by from_text (stage     *)
(* "decoded"); a text given by hand starts at stage "text".  The text is   *)
(* kept as the tree its parse gives.  A single parameter goes the same way *)
(* through write_parameter ("param" to "node") and parse_parameter ("node" *)
(* to "parsed").                                                           *)
(***************************************************************************)
MaxCurveChildren == 129

TextXml == << "x", "m", "l" >>
Text59 == << "5", "9" >>
TextBoxes == << "B", "o", "x", "e", "s" >>

F(whole, frac) == [ neg |-> FALSE, whole |-> whole, frac |-> frac ]

\* 32-bit samples: every leading digit, so both halves of the range.
U32Samples ==
  { [ i \in 1 .. 8 |-> IF i = 1 THEN a ELSE IF i = 8 THEN c ELSE m ] :
      a \in 0 .. 15, m \in { 0, 15 }, c \in { 0, 1, 15 } }

\* The number child i of a sample curve sequence spells.
CurveNumber(i) == (7 * i) % 10

SampleCurve(j) ==
  [ a |-> NibblesOf(CurveNumber(CurveWidth * (j - 1) + 1), 8),
    b |-> NibblesOf(CurveNumber(CurveWidth * (j - 1) + 2), 8),
    floats |-> [ k \in 1 .. CurveFloats |->
                   F(CurveNumber(CurveWidth * (j - 1) + 2 + k), << >>) ] ]

ParamSamples ==
  { [ t |-> "Bool", v |-> TRUE ], [ t |-> "Bool", v |-> FALSE ],
    [ t |-> "Int", v |-> 7 ], [ t |-> "Int", v |-> -5 ],
    [ t |-> "F32", v |-> F(1, << "5" >>) ], [ t |-> "F32", v |-> F(2, << >>) ],
    [ t |-> "Vec2", v |-> << F(1, << >>), F(0, << "2", "5" >>) >> ],
    [ t |-> "Vec3", v |-> << F(1, << >>), F(2, << >>), F(3, << >>) >> ],
    [ t |-> "Vec4", v |-> << F(1, << >>), F(2, << >>), F(3, << >>), F(4, << >>) >> ],
    [ t |-> "Color", v |-> << F(0, << >>), F(0, << "5" >>), F(1, << >>), F(1, << >>) >> ],
    [ t |-> "Quat", v |-> << F(0, << >>), F(0, << >>), F(0, << >>), F(1, << >>) >> ],
    [ t |-> "String32", v |-> TextAI ], [ t |-> "String64", v |-> Text123 ],
    [ t |-> "String256", v |-> TextTrue ],
    [ t |-> "StringRef", v |-> TextAI ], [ t |-> "StringRef", v |-> Text123 ],
    [ t |-> "StringRef", v |-> TextTrue ],
    [ t |-> "BufferInt", v |-> << 1, -2, 30 >> ],
    [ t |-> "BufferF32", v |-> << F(1, << "5" >>), F(2, << >>) >> ],
    [ t |-> "BufferU32", v |-> << NibblesOf(1, 8), [ i \in 1 .. 8 |-> 15 ] >> ],
    [ t |-> "BufferBinary", v |-> << << 0, 10 >>, << 15, 15 >> >> ],
    [ t |-> "Curve1", v |-> << SampleCurve(1) >> ],
    [ t |-> "Curve2", v |-> << SampleCurve(1), SampleCurve(2) >> ] }
    \cup { [ t |-> "U32", v |-> x ] : x \in U32Samples }

PlainNode(text) == Keyed(FALSE, << >>, FALSE, ScalarBody("", text, FALSE))

\* A !curve sequence of n numeric children.
CurveNode(n) ==
  Keyed(TRUE, TextQ, FALSE,
    Body("seq", "!curve", << >>, FALSE,
      [ i \in 1 .. n |->
          PlainNode(IF (i - 1) % CurveWidth < 2 THEN Dec(CurveNumber(i))
                    ELSE FloatText(F(CurveNumber(i), << >>))) ]))

\* Parameter nodes as a text may hold them.
NodeSamples ==
  { CurveNode(n) : n \in 0 .. MaxCurveChildren }
    \cup { Keyed(TRUE, TextQ, FALSE, ScalarBody("!u", text, FALSE)) :
             text \in { << "1", "6" >>, << "-", "1" >>, Text0x \o << "1", "0" >>,
                        TextAI } }
    \cup { Keyed(TRUE, TextQ, FALSE, ScalarBody("", text, FALSE)) :
             text \in { TextNull, TextTilde, Text0x \o << "f", "f" >> } }

KeyedNode(key, body) == Keyed(TRUE, key, FALSE, body)

MapBody(tag, kids) == Body("map", tag, << >>, FALSE, kids)

TrueNode == ScalarBody("", TextTrue, FALSE)

ListBody(objects, lists) ==
  MapBody("!list", << KeyedNode(TextObjects, MapBody("", objects)),
                      KeyedNode(TextLists, MapBody("", lists)) >>)

IoBody(version, root) ==
  MapBody("!io", << KeyedNode(TextVersion, ScalarBody("", version, FALSE)),
                    KeyedNode(TextType, ScalarBody("", TextXml, FALSE)),
                    KeyedNode(TextParamRoot, root) >>)

\* A text with one object that holds one parameter.
TextWith(version, objectkey, param) ==
  IoBody(version, ListBody(<< KeyedNode(objectkey, MapBody("!obj", << param >>)) >>, << >>))

Without(kids, key) == SelectSeq(kids, LAMBDA kid : kid.key # key)

WellFormed == TextWith(<< "1" >>, TextAI, KeyedNode(TextQ, TrueNode))

VersionTexts ==
  { << "1" >>, << "1", "0" >>, Text0x \o << "1", "0" >>, << "f", "f" >>,
    Text0x \o Text0x \o << "1" >>, << "z", "z" >>, Text0x, TextTilde,
    << "1", ".", "5" >>, << "-", "1" >> }

\* Texts that differ from a well-formed one in their numbers.
NumberTexts ==
  { TextWith(v, TextAI, KeyedNode(TextQ, TrueNode)) : v \in VersionTexts }
    \cup { TextWith(<< "1" >>, TextAI,
             KeyedNode(TextQ, SeqBody(tag, << << "1", ".", "0" >>, text >>))) :
               tag \in { "!vec2", "!buffer_int", "!buffer_f32", "!buffer_u32",
                         "!buffer_binary", "", "!vec9" },
               text \in { << "2" >>, Text0x \o << "2" >>, Text0x \o Text0x \o << "2" >>,
                          << "z", "z" >>, TextTilde } }

\* Texts that lack a required child or have a node of another shape.
ShapeTexts ==
  { MapBody("!io", Without(WellFormed.kids, key)) :
      key \in { TextVersion, TextType, TextParamRoot } }
    \cup { IoBody(<< "1" >>, MapBody("!list", Without(ListBody(<< >>, << >>).kids, key))) :
             key \in { TextObjects, TextLists } }
    \cup { IoBody(<< "1" >>, body) :
             body \in { SeqBody("!list", << >>), TrueNode,
                        MapBody("!list",
                          << KeyedNode(TextObjects, SeqBody("", << >>)),
                             KeyedNode(TextLists, MapBody("", << >>)) >>),
                        MapBody("!list",
                          << KeyedNode(TextObjects, MapBody("", << >>)),
                             KeyedNode(TextLists, TrueNode) >>),
                        ListBody(<< KeyedNode(TextAI, TrueNode) >>, << >>),
                        ListBody(<< KeyedNode(TextAI, SeqBody("!obj", << >>)) >>, << >>),
                        ListBody(<< >>, << KeyedNode(TextAI, TrueNode) >>),
                        ListBody(<< >>,
                          << KeyedNode(TextAI, MapBody("!list",
                               << KeyedNode(TextObjects, MapBody("", << >>)) >>)) >>) } }
    \cup { TextWith(<< "1" >>, TextAI, KeyedNode(TextQ, ScalarBody("", text, FALSE))) :
             text \in { TextNull, TextTilde, << >> } }

\* Texts whose keys are names, numbers and quoted numbers.
KeyTexts ==
  { TextWith(<< "1" >>, TextAI, Keyed(TRUE, key, keyq, TrueNode)) :
      key \in { TextQ, Text123, Text59 }, keyq \in BOOLEAN }
    \cup { IoBody(<< "1" >>,
             ListBody(<< Keyed(TRUE, key, keyq,
                           MapBody("!obj", << Keyed(TRUE, pkey, pkeyq, TrueNode) >>)) >>,
                      << >>)) :
             key \in { Text123, Text59 }, keyq \in BOOLEAN,
             pkey \in { Text123, TextQ }, pkeyq \in BOOLEAN }
    \cup { IoBody(<< "1" >>,
             ListBody(<< >>, << Keyed(TRUE, key, keyq, ListBody(<< >>, << >>)) >>)) :
             key \in { Text123, TextBoxes }, keyq \in BOOLEAN }

GivenTexts == NumberTexts \cup ShapeTexts \cup KeyTexts


Pio(objects, lists) ==
  [ version |-> NibblesOf(10, 8), data_type |-> TextXml,
    param_root |-> [ objects |-> objects, lists |-> lists ] ]

NoList == [ objects |-> << >>, lists |-> << >> ]

\* The keys of the sample values: names the tables hold and names they lack.
ObjectKeys == { hash_name(TextAI), hash_name(TextQ), hash_name(TextAI01) }

ParameterKeys == { hash_name(Text123), hash_name(TextQ), hash_name(TextAI01) }

ListKeys == { hash_name(TextBoxes), hash_name(TextQ) }

\* ParameterIO values: one object with one parameter of every sampled kind
\* and key, two parameters in one object, and a list in the root list.
PioSamples ==
  { Pio(<< << hash_name(TextQ), << << hash_name(TextQ), p >> >> >> >>, << >>) :
      p \in { q \in ParamSamples : q.t # "U32" \/ q.v[2] = 15 } }
    \cup { Pio(<< << k, << << pk, [ t |-> "Bool", v |-> TRUE ] >> >> >> >>, << >>) :
             k \in ObjectKeys, pk \in ParameterKeys }
    \cup { Pio(<< << k, << << hash_name(Text123), [ t |-> "Int", v |-> 7 ] >>,
                         << hash_name(TextQ), [ t |-> "Bool", v |-> FALSE ] >> >> >> >>,
               << >>) : k \in ObjectKeys }
    \cup { Pio(<< >>, << << k, NoList >> >>) : k \in ListKeys }
    \cup { Pio(<< >>, << << k, [ objects |-> << << hash_name(TextQ), << >> >> >>,
                                lists |-> << >> ] >> >>) : k \in ListKeys }

\* The tables a document is written with: as built, or with a name that
\* reads as a number added.
CodecTables ==
  { [ names |-> IF extra THEN OrInsert(New(botw_strings).names, hash_name(Text123), Text123)
                ELSE New(botw_strings).names,
      numbered_names |-> New(botw_strings).numbered_names ] :
      botw_strings \in BOOLEAN, extra \in BOOLEAN }

InitCodec ==
  /\ \E t \in CodecTables : InitTable(t)
  /\ lock = NoThread
  /\ threads = << >>
  /\ \/ \E pio \in PioSamples : doc = [ stage |-> "value", origin |-> "value", pio |-> pio ]
     \/ \E tree \in GivenTexts : doc = [ stage |-> "text", origin |-> "given", tree |-> tree ]
     \/ \E param \in ParamSamples :
          doc = [ stage |-> "param", origin |-> "value", param |-> param ]
     \/ \E node \in NodeSamples :
          doc = [ stage |-> "node", origin |-> "given", node |-> node ]

\* A map child without a key, anywhere in the tree.
RECURSIVE HasKeyless(_)
HasKeyless(node) ==
  \E i \in DOMAIN node.kids :
    \/ (node.kind = "map" /\ ~node.kids[i].haskey)
    \/ HasKeyless(node.kids[i])

\* A child read back with an empty key if it is a map's and has none.
KeyFilled(in_map, kid) ==
  IF in_map /\ ~kid.haskey THEN [ kid EXCEPT !.haskey = TRUE, !.key = << >> ] ELSE kid

\* The tree with an empty key where none was set.
RECURSIVE WithEmptyKeys(_)
WithEmptyKeys(node) ==
  [ node EXCEPT !.kids =
      [ i \in DOMAIN node.kids |->
          KeyFilled(node.kind = "map", WithEmptyKeys(node.kids[i])) ] ]

\* What Tree::parse gives for a text that is not a tree.
Unparsable == Body("unparsable", "", << >>, FALSE, << >>)

\* tree.emit() and the parse of its text.  A tree whose map children all
\* have keys reads back as it was written.  For a child without a key the
\* text library decides: emit fails and unwrap panics, the text does not
\* parse, or the child reads back with an empty key.
EmitOutcomes(tree) ==
  IF HasKeyless(tree) THEN { "panic", "unparsable", "empty_key" } ELSE { "written" }

Emitted(tree, outcome) ==
  CASE outcome = "written" -> tree
    [] outcome = "empty_key" -> WithEmptyKeys(tree)
    [] OTHER -> Unparsable

\* to_text once write_parameter_io has given w: unwrap, then emit.
Emit(w) ==
  \E outcome \in EmitOutcomes(w.body) :
    /\ names' = w.names
    /\ alive' = (~w.crashed /\ outcome # "panic")
    /\ doc' = IF w.crashed \/ outcome = "panic"
              THEN [ stage |-> "panicked", origin |-> "value", pio |-> doc.pio ]
              ELSE [ stage |-> "text", origin |-> "value", pio |-> doc.pio,
                     written |-> w.body, tree |-> Emitted(w.body, outcome) ]

\* ParameterIO::to_text
ToText ==
  /\ alive /\ doc.stage = "value"
  /\ \E env \in Envs : Emit(write_parameter_io(names, numbered_names, doc.pio, env))
  /\ UNCHANGED << numbered_names, call, lock, threads >>

\* ParameterIO::from_text
FromText ==
  /\ alive /\ doc.stage = "text"
  /\ doc' = [ doc EXCEPT !.stage = "decoded" ] @@
            [ out |-> IF doc.tree.kind = "unparsable" THEN Err
                      ELSE read_parameter_io(doc.tree) ]
  /\ UNCHANGED << names, numbered_names, call, alive, lock, threads >>

\* write_parameter into a node that has its key.
WriteParameter ==
  /\ alive /\ doc.stage = "param"
  /\ doc' = [ stage |-> "node", origin |-> "value", param |-> doc.param,
              node |-> Keyed(TRUE, TextQ, FALSE, write_parameter(doc.param)) ]
  /\ UNCHANGED << names, numbered_names, call, alive, lock, threads >>

\* parse_parameter
ParseParameter ==
  /\ alive /\ doc.stage = "node"
  /\ doc' = [ doc EXCEPT !.stage = "parsed" ] @@ [ out |-> parse_parameter(doc.node) ]
  /\ UNCHANGED << names, numbered_names, call, alive, lock, threads >>

NextCodec == ToText \/ FromText \/ WriteParameter \/ ParseParameter

SpecCodec == InitCodec /\ [][NextCodec]_vars


(***************************************************************************)
(* Claims about the table.                                                 *)
(***************************************************************************)
\* C2: over every call of add_name, add_name_with_hash, add_name_str and
\* get_name, a hash that has a name keeps it: the entry is neither removed
\* nor given another name.
C2_OnlyGrows ==
  [][ \A h \in DOMAIN names : h \in DOMAIN names' /\ names'[h] = names[h] ]_vars

\* A later add for a hash that already had another name has been made, and
\* the first name is still the one stored.
C2_Witness ==
  /\ call.op \in { "add_name", "add_name_with_hash", "add_name_str" }
  /\ call.n = MaxCalls
  /\ Get(names, call.hash) # call.name

\* C3: get_name called twice in a row with the same arguments returns the
\* same result both times, and when the first call returned a name the
\* second is answered by the occupied branch and leaves the table as it was.
C3_Deterministic ==
  \A hash \in QueryHashes, index \in Indices, parent_hash \in ParentHashes :
    \A e1 \in EnvsAt(names, hash, parent_hash) :
      LET r1 == get_name(names, numbered_names, hash, index, parent_hash, e1)
      IN  r1.ret # Crash =>
            \A e2 \in EnvsAt(r1.names, hash, parent_hash) :
              LET r2 == get_name(r1.names, numbered_names, hash, index, parent_hash, e2)
              IN  /\ r2.ret = r1.ret
                  /\ r1.ret # NoName => r2.hit /\ r2.names = r1.names

\* The candidates of one prefix, as the claim lists them.
SixCandidates(prefix, index) ==
  << prefix \o Dec(index),
     prefix \o ZeroPad(Dec(index), 2),
     prefix \o ZeroPad(Dec(index), 3),
     prefix \o << "_" >> \o Dec(index),
     prefix \o << "_" >> \o ZeroPad(Dec(index), 2),
     prefix \o << "_" >> \o ZeroPad(Dec(index), 3) >>

\* All candidates for a parent named P, in the claim's order of prefixes.
OrderedCandidates(P, index) ==
  SixCandidates(P, index) \o SixCandidates(Children, index) \o SixCandidates(Child, index)
    \o (IF EndsWith(P, SuffixS)
        THEN SixCandidates(SubSeq(P, 1, Len(P) - 1), index) ELSE << >>)
    \o (IF EndsWith(P, SuffixEs)
        THEN SixCandidates(SubSeq(P, 1, Len(P) - 2), index) ELSE << >>)
    \o (IF EndsWith(P, SuffixList)
        THEN SixCandidates(SubSeq(P, 1, Len(P) - 4), index) ELSE << >>)

\* What C4 says a call returns and stores when some candidate matches.
PrefixGuessIsFirstCandidate(env) ==
  \A hash \in QueryHashes, index \in Indices, parent_hash \in ParentHashes :
    LET P        == Get(names, parent_hash)
        expected == FirstMatch(OrderedCandidates(P, index), hash)
        r        == get_name(names, numbered_names, hash, index, parent_hash, env)
    IN  (Get(names, hash) = NoName /\ P # NoName /\ expected # NoName)
          => r.ret = expected /\ Get(r.names, hash) = expected

\* C4: when hash has no name and the parent has the name P, the first
\* candidate, in the order P, "Children", "Child", P without "s", "es",
\* "List", six spellings each, whose hash is the one asked for is stored
\* under hash and returned.
C4_FirstCandidateWins ==
  \A env \in Envs : PrefixGuessIsFirstCandidate(env)

\* The same statement for the calls in which names.entry(hash) leaves the
\* map's storage where parent_name points.
C4_WhenStorageStays == PrefixGuessIsFirstCandidate(Sound)

\* The numbered candidates as C11 and C12 list them: each template in table
\* order, each with the positions 0 up to and including index + 1.
RECURSIVE TemplateCandidates(_, _)
TemplateCandidates(templates, index) ==
  IF templates = << >> THEN << >>
  ELSE [ k \in 1 .. (index + 2) |-> format_numbered_name(Head(templates), k - 1) ]
         \o TemplateCandidates(Tail(templates), index)

\* No text of cands has the hash.
NoneHashesTo(cands, hash) == \A k \in DOMAIN cands : hash_name(cands[k]) # hash

\* The parent-prefixed candidates of a call: none when the parent has no name.
PrefixedCandidates(parent_hash, index) ==
  IF Get(names, parent_hash) = NoName THEN << >>
  ELSE OrderedCandidates(Get(names, parent_hash), index)

\* What C11 says of one call of get_name in the current state.
FrameOfCall(hash, index, parent_hash, env) ==
  LET r == get_name(names, numbered_names, hash, index, parent_hash, env)
  IN  /\ r.ret # Crash
      /\ Get(names, hash) # NoName => r.names = names
      /\ ( /\ Get(names, hash) = NoName
           /\ NoneHashesTo(PrefixedCandidates(parent_hash, index)
                             \o TemplateCandidates(numbered_names, index), hash) )
           => r.ret = NoName /\ r.names = names
      /\ (Get(names, hash) = NoName /\ r.ret # NoName)
           => /\ DOMAIN r.names = DOMAIN names \cup { hash }
              /\ r.names[hash] = r.ret
              /\ \A h \in DOMAIN names : r.names[h] = names[h]

\* C11: every call of get_name returns (a name or none); when no
\* parent-prefixed and no numbered candidate hashes to hash it returns none
\* and leaves the table as it was; when it returns a guessed name the table
\* differs by the one new entry under hash and nothing else.
C11_NeverDestructive ==
  \A hash \in QueryHashes, index \in Indices, parent_hash \in ParentHashes :
    \A env \in EnvsAt(names, hash, parent_hash) :
      FrameOfCall(hash, index, parent_hash, env)

\* The same statement for the calls in which names.entry(hash) leaves the
\* map's storage where parent_name points.
C11_WhenStorageStays ==
  \A hash \in QueryHashes, index \in Indices, parent_hash \in ParentHashes :
    FrameOfCall(hash, index, parent_hash, Sound)

\* What C12 says of one call of get_name in the current state.
FallsBackToTemplates(hash, index, parent_hash, env) ==
  LET r        == get_name(names, numbered_names, hash, index, parent_hash, env)
      expected == FirstMatch(TemplateCandidates(numbered_names, index), hash)
  IN  ( /\ Get(names, hash) = NoName
        /\ NoneHashesTo(PrefixedCandidates(parent_hash, index), hash) )
        => /\ r.ret = expected
           /\ Get(r.names, hash) = expected

\* C12: when hash has no name and either the parent has none (no prefixed,
\* "Children" or "Child" guess is then made) or every parent-based guess
\* failed, the call returns and stores the first text, over the templates in
\* table order and the positions 0 .. index + 1, whose hash is hash.
C12_NumberedFallback ==
  \A hash \in QueryHashes, index \in Indices, parent_hash \in ParentHashes :
    \A env \in EnvsAt(names, hash, parent_hash) :
      FallsBackToTemplates(hash, index, parent_hash, env)

\* The part of C12 about a parent without a name.
C12_WithoutParent ==
  \A hash \in QueryHashes, index \in Indices, parent_hash \in ParentHashes :
    Get(names, parent_hash) = NoName
      => FallsBackToTemplates(hash, index, parent_hash, Sound)

\* C12 for the calls in which the storage stays where parent_name points.
C12_WhenStorageStays ==
  \A hash \in QueryHashes, index \in Indices, parent_hash \in ParentHashes :
    FallsBackToTemplates(hash, index, parent_hash, Sound)

\* C13: in a table built by new and changed only by add_name, add_name_str
\* and get_name, every entry (h, s) has hash_name(s) = h, and a name that
\* get_name returned for a hash hashes to that hash.
C13_HashConsistent ==
  /\ \A h \in DOMAIN names : hash_name(names[h]) = h
  /\ (call.op = "get_name" /\ call.ret \notin { NoName, Crash })
       => hash_name(call.ret) = call.hash

\* get_name has guessed a name, on top of an add, and stored it.
C13_Witness ==
  /\ call.op = "get_name" /\ call.n = MaxCalls
  /\ ~call.hit
  /\ call.ret \notin { NoName, Crash }
  /\ Get(names, call.hash) = call.ret
  /\ \E name \in SeedNames : Get(names, hash_name(name)) = name


(***************************************************************************)
(* Claims about the codec.                                                 *)
(***************************************************************************)

\* C1: for every valid ParameterIO V, decoding the text that encoding V
\* produced gives a ParameterIO equal to V: from_text(to_text(V)) == V.
C1_RoundTrip ==
  (doc.stage = "decoded" /\ doc.origin = "value") => doc.out = Ok(doc.pio)

\* The Name a key text stands for: its number if it is an unquoted unsigned
\* integer, the hash of the text otherwise.
NameOfKey(kid) ==
  IF ~kid.keyq /\ IsU64Text(kid.key) THEN DecValue(kid.key) % HashMod
  ELSE hash_name(kid.key)

\* The keys a decoded map has are those its children's key texts stand for.
KeysRead(kids, m) ==
  Len(m) = Len(kids) => \A i \in DOMAIN kids : m[i][1] = NameOfKey(kids[i])

\* The same for a list node, its objects and its lists, all the way down.
RECURSIVE ListKeysRead(_, _)
ListKeysRead(node, plist) ==
  LET objects == GetChild(node, TextObjects).kids
      lists   == GetChild(node, TextLists).kids
  IN  /\ KeysRead(objects, plist.objects)
      /\ KeysRead(lists, plist.lists)
      /\ Len(objects) = Len(plist.objects) =>
           \A i \in DOMAIN objects : KeysRead(objects[i].kids, plist.objects[i][2])
      /\ Len(lists) = Len(plist.lists) =>
           \A i \in DOMAIN lists : ListKeysRead(lists[i], plist.lists[i][2])

\* A parameter's key that is a name reading as a number is written quoted.
NumericNamesQuoted(nm, node, plist) ==
  LET objects == GetChild(node, TextObjects).kids
  IN  \A i \in DOMAIN objects : \A j \in DOMAIN objects[i].kids :
        LET name == Get(nm, plist.objects[i][2][j][1])
            kid  == objects[i].kids[j]
        IN  (name # NoName /\ IsU64Text(name)) => (kid.key = name /\ kid.keyq)

\* C6: a key whose recovered name is an unsigned integer literal is written
\* quoted; a quoted key is read by hashing its text, and an unquoted key
\* that parses as an integer is read as the raw hash.
C6_KeyQuoting ==
  /\ (doc.stage = "text" /\ doc.origin = "value") =>
       NumericNamesQuoted(names, GetChild(doc.written, TextParamRoot), doc.pio.param_root)
  /\ (doc.stage = "decoded" /\ doc.out.ok) =>
       ListKeysRead(GetChild(doc.tree, TextParamRoot), doc.out.v.param_root)

\* The key of a written child: the name the table has for the hash, or the
\* decimal text of the hash, unquoted.
KeyWritten(nm, kid, hash) ==
  /\ kid.haskey
  /\ \/ (Get(nm, hash) # NoName /\ kid.key = Get(nm, hash))
     \/ (kid.key = Dec(hash) /\ ~kid.keyq)

RECURSIVE ListKeysWritten(_, _, _)
ListKeysWritten(nm, node, plist) ==
  LET objects == GetChild(node, TextObjects).kids
      lists   == GetChild(node, TextLists).kids
  IN  /\ \A i \in DOMAIN objects :
           /\ KeyWritten(nm, objects[i], plist.objects[i][1])
           /\ \A j \in DOMAIN objects[i].kids :
                KeyWritten(nm, objects[i].kids[j], plist.objects[i][2][j][1])
      /\ \A i \in DOMAIN lists :
           /\ KeyWritten(nm, lists[i], plist.lists[i][1])
           /\ ListKeysWritten(nm, lists[i], plist.lists[i][2])

\* C7: every child of every written map (the parameters of an object, the
\* objects and the lists of a list) has a key: the name the table returned,
\* or else the decimal text of the hash, unquoted.
C7_EveryChildKeyed ==
  (doc.stage = "text" /\ doc.origin = "value") =>
    ListKeysWritten(names, GetChild(doc.written, TextParamRoot), doc.pio.param_root)

\* C8: U32(x) is written as a hexadecimal literal tagged !u, and reading
\* that node gives U32(x) again, for x below and above 2^31.
C8_U32RoundTrip ==
  (doc.stage \in { "node", "parsed" } /\ doc.origin = "value" /\ doc.param.t = "U32") =>
    /\ doc.node.kind = "val" /\ doc.node.tag = "!u"
    /\ StartsWith(doc.node.val, Text0x)
    /\ AllHexDigits(SubSeq(doc.node.val, 3, Len(doc.node.val)))
    /\ HexDigitsOf(SubSeq(doc.node.val, 3, Len(doc.node.val))) = doc.param.v
    /\ doc.stage = "parsed" =>
         (doc.out.ok /\ doc.out.v.t = "U32" /\ doc.out.v.v = doc.param.v)

C8_Witness ==
  /\ doc.stage = "parsed" /\ doc.origin = "value" /\ doc.param.t = "U32"
  /\ doc.param.v[1] >= 8
  /\ doc.out.ok /\ doc.out.v = doc.param

\* C9: a !curve sequence of 32, 64, 96 or 128 numeric children reads as 1,
\* 2, 3 or 4 curves, each taking two leading values and then its floats in
\* order; with any other number of children the read is an error.
C9_CurveArity ==
  (doc.stage = "parsed" /\ doc.origin = "given" /\ doc.node.tag = "!curve") =>
    LET n == Len(doc.node.kids)
    IN  IF n \in { 32, 64, 96, 128 }
        THEN /\ doc.out.ok
             /\ doc.out.v.t = CurveTypes[n \div 32]
             /\ doc.out.v.v = [ j \in 1 .. (n \div 32) |-> SampleCurve(j) ]
        ELSE ~doc.out.ok

C9_Witness ==
  /\ doc.stage = "parsed" /\ doc.origin = "given" /\ doc.node.tag = "!curve"
  /\ Len(doc.node.kids) = 128
  /\ doc.out.ok /\ Len(doc.out.v.v) = 4

HasChild(node, key) == GetChild(node, key).kind # "invalid"

\* A decimal literal, or a hexadecimal one with or without its 0x.
IsNumberText(s) == IsFloatText(s) \/ IsIntText(s) \/ AllHexDigits(StripOne0x(s))

SequenceTags ==
  { "!vec2", "!vec3", "!vec4", "!quat", "!color", "!curve", "!buffer_int",
    "!buffer_f32", "!buffer_u32", "!buffer_binary" }

\* A parameter node the text form has no reading for.
ParameterFaulty(node) ==
  \/ (node.kind = "seq" /\ node.tag \notin SequenceTags)
  \/ (node.kind = "seq" /\ \E i \in DOMAIN node.kids : ~IsNumberText(node.kids[i].val))
  \/ (node.kind = "val" /\ node.tag = "" /\ ~node.valq
        /\ node.val \in { TextNull, TextTilde, << >> })

ObjectFaulty(node) ==
  node.kind # "map" \/ \E i \in DOMAIN node.kids : ParameterFaulty(node.kids[i])

RECURSIVE ListFaulty(_)
ListFaulty(node) ==
  \/ node.kind # "map"
  \/ ~HasChild(node, TextObjects) \/ ~HasChild(node, TextLists)
  \/ GetChild(node, TextObjects).kind # "map"
  \/ GetChild(node, TextLists).kind # "map"
  \/ \E i \in DOMAIN GetChild(node, TextObjects).kids :
       ObjectFaulty(GetChild(node, TextObjects).kids[i])
  \/ \E i \in DOMAIN GetChild(node, TextLists).kids :
       ListFaulty(GetChild(node, TextLists).kids[i])

TextFaulty(tree) ==
  \/ tree.kind # "map"
  \/ ~HasChild(tree, TextVersion) \/ ~HasChild(tree, TextType)
  \/ ~HasChild(tree, TextParamRoot)
  \/ ~IsNumberText(GetChild(tree, TextVersion).val)
  \/ ListFaulty(GetChild(tree, TextParamRoot))

\* C10: a text that lacks a required child, has another shape where a map
\* is expected, has a sequence without a known tag, a null scalar, or a
\* number that is neither decimal nor hexadecimal, is read as an error.
C10_FaultyTextIsError ==
  (doc.stage = "decoded" /\ TextFaulty(doc.tree)) => ~doc.out.ok


====
